---- MODULE Spec2Model ----
(***************************************************************************)
(* Submission evaluation pipeline of backend/main.go: the HTTP handler     *)
(* apiSubmitProblem, the bounded channel submissionQueue, the goroutine    *)
(* submissionWorker and executePythonCodeInContainerTest.                  *)
(*                                                                         *)
(* Every database call and every Docker call is one atomic step; either    *)
(* may fail (the store or the daemon is unreachable), which is a separate  *)
(* "fault" action so that fairness can be stated for the program's own     *)
(* steps only.  Texts are sequences of one-character strings.              *)
(***************************************************************************)
EXTENDS Naturals, Sequences, FiniteSets, TLC

\* ------------------------------------------------------------------ bounds
\* Number of HTTP submit requests in one run (each handler serves one).
MaxRequests == 2
\* Capacity of submissionQueue.  The program uses 100 (main.go:97); the model
\* scales it down so that a full channel is reached within MaxRequests.
QueueCap == 1

Handlers == 1..MaxRequests
\* main starts one worker goroutine (main.go:100); SpecMW starts both.
Workers == {1, 2}

\* ------------------------------------------------------------------ texts
NUL == "NUL"
Q == "\""
WhiteSpace == {" ", "\n", "\r", "\t"}

RECURSIVE TrimLeft(_)
TrimLeft(s) ==
  IF s # <<>> /\ Head(s) \in WhiteSpace THEN TrimLeft(Tail(s)) ELSE s

RECURSIVE TrimRight(_)
TrimRight(s) ==
  IF s # <<>> /\ s[Len(s)] \in WhiteSpace
  THEN TrimRight(SubSeq(s, 1, Len(s) - 1))
  ELSE s

\* strings.TrimSpace
TrimSpace(s) == TrimRight(TrimLeft(s))

IsNotNul(c) == c # NUL
\* strings.ReplaceAll(s, "\x00", "")
StripNull(s) == SelectSeq(s, IsNotNul)

\* Mutant of NormalizeOutput: the two calls in the other order.
NormalizeOutputStripFirst(raw) == TrimSpace(StripNull(raw))

\* What the worker does with the text a container printed (main.go:388-391).
NormalizeOutput(raw) == StripNull(TrimSpace(raw))

\* ------------------------------------------------------------------ JSON
\* datatypes.JSON is the raw text.  The model knows two well-formed shapes,
\* a string literal and an array; anything else does not decode.
IsJSONString(raw) == Len(raw) >= 2 /\ raw[1] = Q /\ raw[Len(raw)] = Q
IsJSONArray(raw) == Len(raw) >= 2 /\ raw[1] = "[" /\ raw[Len(raw)] = "]"
\* json.Unmarshal(raw, &v) returns nil
UnmarshalOK(raw) == IsJSONString(raw) \/ IsJSONArray(raw)

IsNotSpace(c) == c \notin WhiteSpace
\* The switch after Unmarshal: a string passes through (its content), any
\* other value is marshalled again, which yields the compact form.
ReduceText(raw) ==
  IF IsJSONString(raw) THEN SubSeq(raw, 2, Len(raw) - 1)
  ELSE SelectSeq(raw, IsNotSpace)

\* ------------------------------------------------------------------ store
TcStr == [input |-> <<Q, "h", Q>>, output |-> <<Q, "a", Q>>]
TcBadIn == [input |-> <<"{">>, output |-> <<Q, "a", Q>>]
TcBadOut == [input |-> <<Q, "h", Q>>, output |-> <<"{">>]
TcArr == [input |-> <<"[", "1", "]">>, output |-> <<"[", "0", ",", " ", "1", "]">>]

\* The problems table with its test_cases rows (Problem.TestCases after
\* Preload), immutable while the server runs.
Problems == << <<>>, <<TcStr>>, <<TcBadIn, TcArr, TcBadOut>> >>
ProblemIds == DOMAIN Problems

\* What a container can print (stdout and stderr combined, Tty on).
RawOutputs ==
  { <<"a", NUL, "\r", "\n">>, <<NUL, " ", "a">>, <<"[", "0", ",", "1", "]", "\n">> }

\* What it prints when the submitted code raises: the interpreter's
\* traceback; the container then exits with a non-zero status.
ErrorOutputs == { <<"T", "b", "\r", "\n">> }

\* Request bodies and headers the handler can receive.
Payloads ==
  { [problemId |-> 1, language |-> "python", code |-> "def", userId |-> "u1"],
    [problemId |-> 2, language |-> "python", code |-> "def", userId |-> "u1"],
    [problemId |-> 3, language |-> "python", code |-> "def", userId |-> "u2"],
    [problemId |-> 1, language |-> "javascript", code |-> "pass", userId |-> "u2"],
    [problemId |-> 2, language |-> "javascript", code |-> "def", userId |-> "u1"] }

\* One line of Submission.Output.
Line(n, kind, expected, got) ==
  [n |-> n, kind |-> kind, expected |-> expected, got |-> got]
FixedText(kind) == <<Line(0, kind, <<>>, <<>>)>>

SanitizeLine(l) ==
  [l EXCEPT !.expected = StripNull(@), !.got = StripNull(@)]
\* strings.ReplaceAll(sub.Output, "\x00", "") on the whole report
SanitizeOutput(out) == [k \in DOMAIN out |-> SanitizeLine(out[k])]

NoSub == [id |-> 0]

VARIABLES
  db,          \* submissions table: db[id] is the row with primary key id
  queue,       \* submissionQueue: the identifiers buffered in the channel
  containers,  \* Docker daemon: containers[c] is the state of container c
  hpc, hid,    \* per handler: position, identifier of the row it created
  wpc,         \* per worker: position
  wsub,        \* per worker: sub, the local copy of the row
  wi,          \* per worker: index of the current test case (i+1)
  allPassed, details,  \* per worker: the loop's accumulators
  cid,         \* per worker: resp.ID of the running call to execute
  enqLog,      \* history: identifiers in the order their sends completed
  deqLog,      \* history: <<worker, identifier>> in the order of receives
  evalLog,     \* history: per identifier, what happened in each test case
  ops          \* history: per identifier, store calls made by workers

vars == <<db, queue, containers, hpc, hid, wpc, wsub, wi, allPassed, details,
          cid, enqLog, deqLog, evalLog, ops>>

hvars == <<hpc, hid>>
wlocals == <<wsub, wi, allPassed, details, cid>>

\* ------------------------------------------------------------------ rows
\* Mutant of NextId: the key is the number of rows, so the newest row's key
\* is handed out again.
NextIdRowCount(d) == IF DOMAIN d = {} THEN 1 ELSE Cardinality(DOMAIN d)

\* db.Create assigns the next value of the primary-key sequence.
NextId(d) == Cardinality(DOMAIN d) + 1

\* The table d with the row of key k set to v (INSERT, or UPDATE by key).
Put(d, k, v) == [x \in DOMAIN d \cup {k} |-> IF x = k THEN v ELSE d[x]]

\* Mutant of NewSubmission: the row is created with the verdict set.
NewSubmissionPassed(id, p) ==
  [id |-> id, problemId |-> p.problemId, userId |-> p.userId, code |-> p.code,
   language |-> p.language, competitionId |-> "comp1", passed |-> TRUE,
   output |-> <<>>, status |-> "pending"]

\* The row apiSubmitProblem builds (main.go:240-248); Passed and Output keep
\* Go's zero values.
NewSubmission(id, p) ==
  [id |-> id, problemId |-> p.problemId, userId |-> p.userId, code |-> p.code,
   language |-> p.language, competitionId |-> "comp1", passed |-> FALSE,
   output |-> <<>>, status |-> "pending"]

\* Mutant of ProblemLoadError: the status assignment is missing.
ProblemLoadErrorKeepsStatus(sub) ==
  [sub EXCEPT !.output = SanitizeOutput(FixedText("Error loading problem"))]

\* main.go:323-325
ProblemLoadError(sub) ==
  [sub EXCEPT !.status = "completed",
              !.output = SanitizeOutput(FixedText("Error loading problem"))]

\* Mutant of Finalize: the report is stored whatever the verdict.
FinalizeReportOnly(sub, ap, det) ==
  [sub EXCEPT !.passed = ap, !.output = SanitizeOutput(det),
              !.status = "completed"]

\* Mutant of Finalize: the status is not assigned.
FinalizeKeepsPending(sub, ap, det) ==
  [sub EXCEPT !.passed = ap,
              !.output = SanitizeOutput(IF ap THEN FixedText("All test cases passed.")
                                        ELSE det)]

\* main.go:400-409
Finalize(sub, ap, det) ==
  [sub EXCEPT !.passed = ap,
              !.output = SanitizeOutput(IF ap THEN FixedText("All test cases passed.")
                                        ELSE det),
              !.status = "completed"]

\* Mutant of Placeholder: every submission is a correct answer.
PlaceholderAlwaysCorrect(sub) ==
  [sub EXCEPT !.passed = TRUE,
              !.output = SanitizeOutput(FixedText("Correct Answer")),
              !.status = "completed"]

\* main.go:413-421
Placeholder(sub) ==
  [sub EXCEPT !.passed = (sub.code = "pass"),
              !.output = SanitizeOutput(IF sub.code = "pass"
                                        THEN FixedText("Correct Answer")
                                        ELSE FixedText("Wrong Answer")),
              !.status = "completed"]

\* ------------------------------------------------------------------ apiLeaderboard
\* Mutant of Leaderboard: the verdict is not part of the WHERE clause.
LeaderboardAnyVerdict(d, competitionID) ==
  LET rows == {id \in DOMAIN d :
                 /\ d[id].competitionId = competitionID
                 /\ d[id].status = "completed"}
  IN { [UserID |-> u,
        NumSolved |-> Cardinality({id \in rows : d[id].userId = u})] :
       u \in {d[id].userId : id \in rows} }

\* SELECT user_id, COUNT(*) ... WHERE competition_id = ? AND status =
\* 'completed' AND passed = true GROUP BY user_id (main.go:282-285), read
\* into the slice of LBEntry (290-297).  No ORDER BY: the entries are a set.
Leaderboard(d, competitionID) ==
  LET rows == {id \in DOMAIN d :
                 /\ d[id].competitionId = competitionID
                 /\ d[id].status = "completed"
                 /\ d[id].passed}
  IN { [UserID |-> u,
        NumSolved |-> Cardinality({id \in rows : d[id].userId = u})] :
       u \in {d[id].userId : id \in rows} }

\* ------------------------------------------------------------------ channel
\* Mutant of CanSend: the buffer is never full.
CanSendAlways(q) == TRUE
\* Mutant of ChanRecv: the received element stays in the buffer.
ChanRecvKeeps(q) == q

\* A send on a buffered channel proceeds only while the buffer has room.
CanSend(q) == Len(q) < QueueCap
ChanSend(q, v) == Append(q, v)
ChanRecv(q) == Tail(q)

\* ------------------------------------------------------------------ history
NoOps ==
  [fetches |-> 0, loads |-> 0, saves |-> 0, writers |-> {}, outcome |-> "none"]
Fact(n, inOK, outOK, err, raw) ==
  [n |-> n, inOK |-> inOK, outOK |-> outOK, err |-> err, raw |-> raw]

\* ------------------------------------------------------------------ Init
InitCommon ==
  /\ db = <<>>
  /\ queue = <<>>
  /\ containers = <<>>
  /\ hpc = [h \in Handlers |-> "start"]
  /\ hid = [h \in Handlers |-> 0]
  /\ wsub = [w \in Workers |-> NoSub]
  /\ wi = [w \in Workers |-> 0]
  /\ allPassed = [w \in Workers |-> TRUE]
  /\ details = [w \in Workers |-> <<>>]
  /\ cid = [w \in Workers |-> 0]
  /\ enqLog = <<>>
  /\ deqLog = <<>>
  /\ evalLog = <<>>
  /\ ops = <<>>

\* main: one `go submissionWorker()`.
Init ==
  /\ InitCommon
  /\ wpc = [w \in Workers |-> IF w = 1 THEN "idle" ELSE "off"]

\* ------------------------------------------------------------------ apiSubmitProblem
\* Problem found, payload bound, row created (main.go:216-252).
SubmitCreate(h) ==
  /\ hpc[h] = "start"
  /\ \E p \in Payloads :
       db' = Put(db, NextId(db), NewSubmission(NextId(db), p))
  /\ hid' = [hid EXCEPT ![h] = NextId(db)]
  /\ hpc' = [hpc EXCEPT ![h] = "send"]
  /\ evalLog' = Put(evalLog, NextId(db), <<>>)
  /\ ops' = Put(ops, NextId(db), NoOps)
  /\ UNCHANGED <<queue, containers, wpc, wlocals, enqLog, deqLog>>

\* Mutant of SubmitReject: the handler goes on to the send after db.Create
\* failed.
SubmitRejectStillSends(h) ==
  /\ hpc[h] = "start"
  /\ hid' = [hid EXCEPT ![h] = NextId(db)]
  /\ hpc' = [hpc EXCEPT ![h] = "send"]
  /\ UNCHANGED <<db, queue, containers, wpc, wlocals, enqLog, deqLog,
                 evalLog, ops>>

\* One of the early returns: 404 (problem lookup), 400 (payload), 500
\* (db.Create failed).  Nothing is stored, nothing is sent.
SubmitReject(h) ==
  /\ hpc[h] = "start"
  /\ hpc' = [hpc EXCEPT ![h] = "rejected"]
  /\ UNCHANGED <<db, queue, containers, hid, wpc, wlocals, enqLog, deqLog,
                 evalLog, ops>>

\* submissionQueue <- sub.ID, then the 200 response (main.go:255-260).
SubmitEnqueue(h) ==
  /\ hpc[h] = "send"
  /\ CanSend(queue)
  /\ queue' = ChanSend(queue, hid[h])
  /\ enqLog' = Append(enqLog, hid[h])
  /\ hpc' = [hpc EXCEPT ![h] = "done"]
  /\ UNCHANGED <<db, containers, hid, wpc, wlocals, deqLog, evalLog, ops>>

\* ------------------------------------------------------------------ submissionWorker
Id(w) == wsub[w].id
TestCasesOf(w) == Problems[wsub[w].problemId]
CurrentCase(w) == TestCasesOf(w)[wi[w]]

\* Back to the head of `for subID := range submissionQueue`.
ToIdle(w) ==
  /\ wpc' = [wpc EXCEPT ![w] = "idle"]
  /\ wsub' = [wsub EXCEPT ![w] = NoSub]
  /\ wi' = [wi EXCEPT ![w] = 0]
  /\ allPassed' = [allPassed EXCEPT ![w] = TRUE]
  /\ details' = [details EXCEPT ![w] = <<>>]

\* The receive of the range loop (main.go:308).
Dequeue(w) ==
  /\ wpc[w] = "idle"
  /\ queue # <<>>
  /\ wsub' = [wsub EXCEPT ![w] = [id |-> Head(queue)]]
  /\ queue' = ChanRecv(queue)
  /\ deqLog' = Append(deqLog, <<w, Head(queue)>>)
  /\ wpc' = [wpc EXCEPT ![w] = "fetch"]
  /\ UNCHANGED <<db, containers, hvars, wi, allPassed, details, cid, enqLog,
                 evalLog, ops>>

\* db.First(&sub, subID) succeeds (main.go:313-319).  A row of another
\* language is evaluated by the placeholder policy right away (411-421).
Fetch(w) ==
  /\ wpc[w] = "fetch"
  /\ Id(w) \in DOMAIN db
  /\ LET row == db[Id(w)] IN
       IF row.language = "python"
       THEN /\ wsub' = [wsub EXCEPT ![w] = row]
            /\ wpc' = [wpc EXCEPT ![w] = "load"]
       ELSE /\ wsub' = [wsub EXCEPT ![w] = Placeholder(row)]
            /\ wpc' = [wpc EXCEPT ![w] = "save"]
  /\ ops' = [ops EXCEPT ![Id(w)].fetches = @ + 1,
                        ![Id(w)].outcome =
                          IF db[Id(w)].language = "python" THEN @ ELSE "placeholder"]
  /\ UNCHANGED <<db, queue, containers, hvars, wi, allPassed, details, cid,
                 enqLog, deqLog, evalLog>>

\* Mutant of FetchFail: the row that was not read is closed all the same.
FetchFailMarksCompleted(w) ==
  /\ wpc[w] = "fetch"
  /\ db' = [db EXCEPT ![Id(w)].status = "completed"]
  /\ ops' = [ops EXCEPT ![Id(w)].fetches = @ + 1]
  /\ ToIdle(w)
  /\ UNCHANGED <<queue, containers, hvars, cid, enqLog, deqLog, evalLog>>

\* db.First returns an error: `continue` (main.go:314-316).
FetchFail(w) ==
  /\ wpc[w] = "fetch"
  /\ ops' = [ops EXCEPT ![Id(w)].fetches = @ + 1]
  /\ ToIdle(w)
  /\ UNCHANGED <<db, queue, containers, hvars, cid, enqLog, deqLog, evalLog>>

\* db.Preload("TestCases").First(&problem, ...) succeeds; the loop's
\* accumulators are initialised (main.go:321-338).
LoadProblem(w) ==
  /\ wpc[w] = "load"
  /\ wi' = [wi EXCEPT ![w] = 1]
  /\ allPassed' = [allPassed EXCEPT ![w] = TRUE]
  /\ details' = [details EXCEPT ![w] = <<>>]
  /\ wpc' = [wpc EXCEPT ![w] = "case"]
  /\ ops' = [ops EXCEPT ![Id(w)].loads = @ + 1]
  /\ UNCHANGED <<db, queue, containers, hvars, wsub, cid, enqLog, deqLog,
                 evalLog>>

\* The problem cannot be loaded (main.go:322-325); db.Save follows.
LoadProblemFail(w) ==
  /\ wpc[w] = "load"
  /\ wsub' = [wsub EXCEPT ![w] = ProblemLoadError(@)]
  /\ wpc' = [wpc EXCEPT ![w] = "save"]
  /\ ops' = [ops EXCEPT ![Id(w)].loads = @ + 1,
                        ![Id(w)].outcome = "loadFailed"]
  /\ UNCHANGED <<db, queue, containers, hvars, wi, allPassed, details, cid,
                 enqLog, deqLog, evalLog>>

\* Mutant of EndCase: only the test cases that fail get a line.
EndCaseFailuresOnly(w, line, ok, fact) ==
  /\ details' = [details EXCEPT ![w] = IF ok THEN @ ELSE Append(@, line)]
  /\ allPassed' = [allPassed EXCEPT ![w] = @ /\ ok]
  /\ wi' = [wi EXCEPT ![w] = @ + 1]
  /\ wpc' = [wpc EXCEPT ![w] = "case"]
  /\ cid' = [cid EXCEPT ![w] = 0]
  /\ evalLog' = [evalLog EXCEPT ![Id(w)] = Append(@, fact)]

\* One iteration of the loop over problem.TestCases ends: its line is
\* appended to details, allPassed is updated, the next case is current.
EndCase(w, line, ok, fact) ==
  /\ details' = [details EXCEPT ![w] = Append(@, line)]
  /\ allPassed' = [allPassed EXCEPT ![w] = @ /\ ok]
  /\ wi' = [wi EXCEPT ![w] = @ + 1]
  /\ wpc' = [wpc EXCEPT ![w] = "case"]
  /\ cid' = [cid EXCEPT ![w] = 0]
  /\ evalLog' = [evalLog EXCEPT ![Id(w)] = Append(@, fact)]

\* json.Unmarshal(tc.Input) fails (main.go:342-346).
CaseInvalidInput(w) ==
  /\ wpc[w] = "case"
  /\ wi[w] <= Len(TestCasesOf(w))
  /\ ~UnmarshalOK(CurrentCase(w).input)
  /\ EndCase(w, Line(wi[w], "invalid input format.", <<>>, <<>>), FALSE,
             Fact(wi[w], FALSE, FALSE, "none", <<>>))
  /\ UNCHANGED <<db, queue, containers, hvars, wsub, enqLog, deqLog, ops>>

\* json.Unmarshal(tc.Output) fails (main.go:362-366).
CaseInvalidExpected(w) ==
  /\ wpc[w] = "case"
  /\ wi[w] <= Len(TestCasesOf(w))
  /\ UnmarshalOK(CurrentCase(w).input)
  /\ ~UnmarshalOK(CurrentCase(w).output)
  /\ EndCase(w, Line(wi[w], "invalid expected output format.", <<>>, <<>>), FALSE,
             Fact(wi[w], TRUE, FALSE, "none", <<>>))
  /\ UNCHANGED <<db, queue, containers, hvars, wsub, enqLog, deqLog, ops>>

\* Both decode: executePythonCodeInContainerTest is called (main.go:381).
CaseExecute(w) ==
  /\ wpc[w] = "case"
  /\ wi[w] <= Len(TestCasesOf(w))
  /\ UnmarshalOK(CurrentCase(w).input)
  /\ UnmarshalOK(CurrentCase(w).output)
  /\ wpc' = [wpc EXCEPT ![w] = "create"]
  /\ UNCHANGED <<db, queue, containers, hvars, wlocals, enqLog, deqLog,
                 evalLog, ops>>

\* The loop is over (main.go:400-409); db.Save follows.
EvalDone(w) ==
  /\ wpc[w] = "case"
  /\ wi[w] > Len(TestCasesOf(w))
  /\ wsub' = [wsub EXCEPT ![w] = Finalize(@, allPassed[w], details[w])]
  /\ wpc' = [wpc EXCEPT ![w] = "save"]
  /\ ops' = [ops EXCEPT ![Id(w)].outcome = "evaluated"]
  /\ UNCHANGED <<db, queue, containers, hvars, wi, allPassed, details, cid,
                 enqLog, deqLog, evalLog>>

\* Mutant of Save: the first write is followed by a second one.
SaveAgain(w) ==
  /\ wpc[w] = "save"
  /\ db' = Put(db, Id(w), wsub[w])
  /\ ops' = [ops EXCEPT ![Id(w)].saves = @ + 1,
                        ![Id(w)].writers = @ \cup {w}]
  /\ IF ops[Id(w)].saves = 0
     THEN UNCHANGED <<wpc, wsub, wi, allPassed, details>>
     ELSE ToIdle(w)
  /\ UNCHANGED <<queue, containers, hvars, cid, enqLog, deqLog, evalLog>>

\* db.Save(&sub) writes the row; its result is not inspected (main.go:326,
\* 410, 422).
Save(w) ==
  /\ wpc[w] = "save"
  /\ db' = Put(db, Id(w), wsub[w])
  /\ ops' = [ops EXCEPT ![Id(w)].saves = @ + 1,
                        ![Id(w)].writers = @ \cup {w}]
  /\ ToIdle(w)
  /\ UNCHANGED <<queue, containers, hvars, cid, enqLog, deqLog, evalLog>>

\* Mutant of SaveFail: the identifier is sent to the queue again.
SaveFailRequeues(w) ==
  /\ wpc[w] = "save"
  /\ ops' = [ops EXCEPT ![Id(w)].saves = @ + 1]
  /\ queue' = Append(queue, Id(w))
  /\ ToIdle(w)
  /\ UNCHANGED <<db, containers, hvars, cid, enqLog, deqLog, evalLog>>

\* db.Save fails: the row is not written, the loop goes on.
SaveFail(w) ==
  /\ wpc[w] = "save"
  /\ ops' = [ops EXCEPT ![Id(w)].saves = @ + 1]
  /\ ToIdle(w)
  /\ UNCHANGED <<db, queue, containers, hvars, cid, enqLog, deqLog, evalLog>>

\* ------------------------------------------------------------------ executePythonCodeInContainerTest
\* Mutant of ExecError: `break` instead of `continue`.
ExecErrorBreaks(w, e) ==
  /\ details' = [details EXCEPT ![w] =
                   Append(@, Line(wi[w], "execution error", <<>>, <<e>>))]
  /\ allPassed' = [allPassed EXCEPT ![w] = FALSE]
  /\ wi' = [wi EXCEPT ![w] = Len(TestCasesOf(w)) + 1]
  /\ wpc' = [wpc EXCEPT ![w] = "case"]
  /\ cid' = [cid EXCEPT ![w] = 0]
  /\ evalLog' = [evalLog EXCEPT ![Id(w)] =
                   Append(@, Fact(wi[w], TRUE, TRUE, e, <<>>))]

\* `return "", err`: back in the worker, main.go:382-386.
ExecError(w, e) ==
  EndCase(w, Line(wi[w], "execution error", <<>>, <<e>>), FALSE,
          Fact(wi[w], TRUE, TRUE, e, <<>>))

\* main.go:393
OutputMatches(output, expectedStr) == output = expectedStr

\* Mutant of CaseLine: a traceback is reported like an error of execute.
CaseLineTracebackIsError(n, output, expectedStr) ==
  IF OutputMatches(output, expectedStr)
  THEN Line(n, "passed.", <<>>, <<>>)
  ELSE IF \E t \in ErrorOutputs : output = StripNull(TrimSpace(t))
       THEN Line(n, "execution error", <<>>, output)
       ELSE Line(n, "failed", expectedStr, output)

\* main.go:393-398
CaseLine(n, output, expectedStr) ==
  IF OutputMatches(output, expectedStr)
  THEN Line(n, "passed.", <<>>, <<>>)
  ELSE Line(n, "failed", expectedStr, output)

\* client.NewClientWithOpts and cli.ContainerCreate succeed (main.go:429-451).
ExecCreate(w) ==
  /\ wpc[w] = "create"
  /\ containers' = Append(containers, "created")
  /\ cid' = [cid EXCEPT ![w] = Len(containers) + 1]
  /\ wpc' = [wpc EXCEPT ![w] = "start"]
  /\ UNCHANGED <<db, queue, hvars, wsub, wi, allPassed, details, enqLog,
                 deqLog, evalLog, ops>>

\* The client cannot be built or the daemon does not create the container.
ExecCreateFail(w) ==
  /\ wpc[w] = "create"
  /\ \E e \in {"client", "create"} : ExecError(w, e)
  /\ UNCHANGED <<db, queue, containers, hvars, wsub, enqLog, deqLog, ops>>

\* cli.ContainerStart succeeds (main.go:452): the submitted program runs; it
\* is one that exits ("running") or one that never does ("looping").
ExecStart(w) ==
  /\ wpc[w] = "start"
  /\ \E st \in {"running", "looping"} :
       containers' = [containers EXCEPT ![cid[w]] = st]
  /\ wpc' = [wpc EXCEPT ![w] = "wait"]
  /\ UNCHANGED <<db, queue, hvars, wlocals, enqLog, deqLog, evalLog, ops>>

\* cli.ContainerStart fails: return (main.go:452-454).
ExecStartFail(w) ==
  /\ wpc[w] = "start"
  /\ ExecError(w, "start")
  /\ UNCHANGED <<db, queue, containers, hvars, wsub, enqLog, deqLog, ops>>

\* The select receives from statusCh: the container is no longer running
\* (main.go:455-462); it exited with status 0 ("exited") or with another
\* status ("failed"), which the code does not look at.  The context is
\* context.Background(): nothing else ends the wait.
ExecWait(w) ==
  /\ wpc[w] = "wait"
  /\ containers[cid[w]] = "running"
  /\ \E st \in {"exited", "failed"} :
       containers' = [containers EXCEPT ![cid[w]] = st]
  /\ wpc' = [wpc EXCEPT ![w] = "logs"]
  /\ UNCHANGED <<db, queue, hvars, wlocals, enqLog, deqLog, evalLog, ops>>

\* The select receives an error from errCh: return (main.go:457-460).
ExecWaitFail(w) ==
  /\ wpc[w] = "wait"
  /\ ExecError(w, "wait")
  /\ UNCHANGED <<db, queue, containers, hvars, wsub, enqLog, deqLog, ops>>

\* cli.ContainerLogs opens the stream (main.go:463-470).
ExecLogs(w) ==
  /\ wpc[w] = "logs"
  /\ wpc' = [wpc EXCEPT ![w] = "read"]
  /\ UNCHANGED <<db, queue, containers, hvars, wlocals, enqLog, deqLog,
                 evalLog, ops>>

\* cli.ContainerLogs fails: return (main.go:467-469).
ExecLogsFail(w) ==
  /\ wpc[w] = "logs"
  /\ ExecError(w, "logs")
  /\ UNCHANGED <<db, queue, containers, hvars, wsub, enqLog, deqLog, ops>>

\* ioutil.ReadAll succeeds, cli.ContainerRemove, return; the worker trims,
\* strips and compares (main.go:471-476, 388-398).
ExecRead(w) ==
  /\ wpc[w] = "read"
  /\ containers' = [containers EXCEPT ![cid[w]] = "removed"]
  /\ \E raw \in (IF containers[cid[w]] = "failed" THEN ErrorOutputs
                  ELSE RawOutputs) :
       LET output == NormalizeOutput(raw)
           expectedStr == ReduceText(CurrentCase(w).output)
       IN EndCase(w, CaseLine(wi[w], output, expectedStr),
                  OutputMatches(output, expectedStr),
                  Fact(wi[w], TRUE, TRUE, "none", raw))
  /\ UNCHANGED <<db, queue, hvars, wsub, enqLog, deqLog, ops>>

\* ioutil.ReadAll fails: return (main.go:472-474).
ExecReadFail(w) ==
  /\ wpc[w] = "read"
  /\ ExecError(w, "read")
  /\ UNCHANGED <<db, queue, containers, hvars, wsub, enqLog, deqLog, ops>>

\* ------------------------------------------------------------------ specifications
\* The steps the program takes when nothing outside it fails.
HandlerStep(h) == SubmitCreate(h) \/ SubmitEnqueue(h)
WorkerStep(w) ==
  \/ Dequeue(w) \/ Fetch(w) \/ LoadProblem(w)
  \/ CaseInvalidInput(w) \/ CaseInvalidExpected(w) \/ CaseExecute(w)
  \/ EvalDone(w) \/ Save(w)
  \/ ExecCreate(w) \/ ExecStart(w) \/ ExecWait(w) \/ ExecLogs(w) \/ ExecRead(w)

Next ==
  \/ \E h \in Handlers : SubmitCreate(h)
  \/ \E h \in Handlers : SubmitReject(h)
  \/ \E h \in Handlers : SubmitEnqueue(h)
  \/ \E w \in Workers : Dequeue(w)
  \/ \E w \in Workers : Fetch(w)
  \/ \E w \in Workers : FetchFail(w)
  \/ \E w \in Workers : LoadProblem(w)
  \/ \E w \in Workers : LoadProblemFail(w)
  \/ \E w \in Workers : CaseInvalidInput(w)
  \/ \E w \in Workers : CaseInvalidExpected(w)
  \/ \E w \in Workers : CaseExecute(w)
  \/ \E w \in Workers : EvalDone(w)
  \/ \E w \in Workers : Save(w)
  \/ \E w \in Workers : SaveFail(w)
  \/ \E w \in Workers : ExecCreate(w)
  \/ \E w \in Workers : ExecCreateFail(w)
  \/ \E w \in Workers : ExecStart(w)
  \/ \E w \in Workers : ExecStartFail(w)
  \/ \E w \in Workers : ExecWait(w)
  \/ \E w \in Workers : ExecWaitFail(w)
  \/ \E w \in Workers : ExecLogs(w)
  \/ \E w \in Workers : ExecLogsFail(w)
  \/ \E w \in Workers : ExecRead(w)
  \/ \E w \in Workers : ExecReadFail(w)

\* The program as main starts it: one worker.
Spec == Init /\ [][Next]_vars

\* The same program with a second `go submissionWorker()`.
InitMW ==
  /\ InitCommon
  /\ wpc = [w \in Workers |-> "idle"]
SpecMW == InitMW /\ [][Next]_vars

\* The Go scheduler runs every goroutine that can take a step; it promises
\* nothing about the store or the daemon failing.
Fairness ==
  /\ \A h \in Handlers : WF_vars(HandlerStep(h))
  /\ \A w \in Workers : WF_vars(WorkerStep(w))
FairSpec == Spec /\ Fairness

\* ------------------------------------------------------------------ claims
Range(f) == {f[x] : x \in DOMAIN f}
ExecPcs == {"start", "wait", "logs", "read"}
\* The workers that hold identifier id between its receive and the end of
\* the loop body.
Holders(id) == {w \in Workers : wpc[w] \notin {"off", "idle"} /\ Id(w) = id}

\* C1: every row is created pending, and a row that is completed stays
\* completed in every later step; so the status changes at most once, from
\* pending to completed.
C1_StatusMonotonic ==
  [][ /\ \A id \in DOMAIN db :
           /\ id \in DOMAIN db'
           /\ db[id].status = "completed" => db'[id].status = "completed"
           /\ db'[id].status \in {"pending", "completed"}
      /\ \A id \in DOMAIN db' \ DOMAIN db : db'[id].status = "pending" ]_vars

\* A worker has written a row as completed while another request is still
\* to be served.
C1_Witness ==
  /\ \E id \in DOMAIN db : db[id].status = "completed" /\ ops[id].writers # {}
  /\ \E h \in Handlers : hpc[h] = "start"

\* C2: every container that exists (created and not removed) belongs to a
\* call of executePythonCodeInContainerTest that has not returned yet.
C2_EnvironmentRemovedOnReturn ==
  \A c \in DOMAIN containers :
    containers[c] # "removed" =>
      \E w \in Workers : wpc[w] \in ExecPcs /\ cid[w] = c

DeqIds == [k \in DOMAIN deqLog |-> deqLog[k][2]]

\* C3: a worker waiting for a container whose program never exits leaves the
\* wait eventually (the time budget ends it).
C3_HangingRunEnds ==
  \A w \in Workers :
    (wpc[w] = "wait" /\ containers[cid[w]] = "looping") ~> (wpc[w] # "wait")

\* C4: whatever fails while a submission is evaluated, every identifier that
\* was sent to the queue is eventually received by the worker.
C4_QueueAlwaysDrained ==
  \A id \in 1..MaxRequests :
    (id \in Range(enqLog)) ~> (id \in Range(DeqIds))

Completed(id) == db[id].status = "completed"
Evaluated(id) ==
  Completed(id) /\ db[id].language = "python" /\ ops[id].outcome = "evaluated"
CasesOf(id) == Problems[db[id].problemId]

\* Test case i of identifier id decoded, ran without an error of execute,
\* and printed the expected text once trimmed and stripped.
CaseMatched(id, i) ==
  /\ UnmarshalOK(CasesOf(id)[i].input) /\ evalLog[id][i].inOK
  /\ UnmarshalOK(CasesOf(id)[i].output) /\ evalLog[id][i].outOK
  /\ evalLog[id][i].err = "none"
  /\ StripNull(TrimSpace(evalLog[id][i].raw)) = ReduceText(CasesOf(id)[i].output)

\* C5: an evaluated python submission that is completed has passed = true
\* exactly when each of its problem's N test cases matched.
C5_PassedIffAllCasesMatch ==
  \A id \in DOMAIN db :
    Evaluated(id) =>
      /\ Len(evalLog[id]) = Len(CasesOf(id))
      /\ db[id].passed <=> \A i \in DOMAIN CasesOf(id) : CaseMatched(id, i)

\* A completed submission passed a problem that has a test case, and another
\* one failed although its container printed the expected letter.
C5_Witness ==
  /\ \E id \in DOMAIN db :
       Evaluated(id) /\ CasesOf(id) # <<>> /\ db[id].passed
  /\ \E id \in DOMAIN db :
       /\ Evaluated(id) /\ ~db[id].passed /\ Len(CasesOf(id)) = 1
       /\ evalLog[id][1].raw = <<NUL, " ", "a">>

ZeroCases(id) == db[id].language = "python" /\ CasesOf(id) = <<>>

\* C6 as stated: a python submission evaluated against a problem without
\* test cases is completed with passed = true and the empty text as output.
C6_ZeroCasesEmptyReport ==
  \A id \in DOMAIN db :
    (Evaluated(id) /\ ZeroCases(id)) => (db[id].passed /\ db[id].output = <<>>)

\* C6 amended: when such a submission is completed after its problem was
\* loaded, passed = true and the output is "All test cases passed.".
C6_ZeroCasesAllPassedText ==
  \A id \in DOMAIN db :
    (Evaluated(id) /\ ZeroCases(id)) =>
      /\ db[id].passed
      /\ db[id].output = FixedText("All test cases passed.")
      /\ evalLog[id] = <<>>

C6_Witness == \E id \in DOMAIN db : Evaluated(id) /\ ZeroCases(id)

NoDuplicates(q) == \A i, j \in DOMAIN q : q[i] = q[j] => i = j

C8_SingleOwner ==
  /\ NoDuplicates(DeqIds)
  /\ \A id \in DOMAIN db :
       /\ ops[id].fetches <= 1
       /\ ops[id].saves <= 1
       /\ \A w \in Holders(id) \cup ops[id].writers : <<w, id>> \in Range(deqLog)

\* Two workers have each written the row of a different identifier.
C8_Witness ==
  \E i, j \in DOMAIN db :
    /\ i # j
    /\ ops[i].writers = {1}
    /\ ops[j].writers = {2}

LoadErrorText == FixedText("Error loading problem")

\* C9 as stated: once the worker is done with a submission whose problem it
\* could not load, the row is completed.
C9_LoadFailureNeverPending ==
  \A id \in DOMAIN db :
    (ops[id].outcome = "loadFailed" /\ Holders(id) = {}) => Completed(id)

\* C9 amended: after a failed problem load no test case is run, the worker
\* goes straight to writing the row as completed, not passed, with the one
\* diagnostic line; the row is completed so unless that write itself fails,
\* in which case it stays pending.
C9_LoadFailureWritesDiagnostic ==
  \A id \in DOMAIN db :
    ops[id].outcome = "loadFailed" =>
      /\ evalLog[id] = <<>>
      /\ \A w \in Holders(id) :
           /\ wpc[w] = "save"
           /\ wsub[w].status = "completed"
           /\ ~wsub[w].passed
           /\ wsub[w].output = LoadErrorText
      /\ Holders(id) = {} =>
           /\ ops[id].saves = 1
           /\ IF ops[id].writers # {}
              THEN Completed(id) /\ ~db[id].passed /\ db[id].output = LoadErrorText
              ELSE db[id].status = "pending"

C9_Witness ==
  \E id \in DOMAIN db :
    ops[id].outcome = "loadFailed" /\ Completed(id) /\ Holders(id) = {}

\* The errors of execute that mean the provisioning backend was not reached.
BackendErrors == {"client", "create"}
BackendErrorAt(id, i) == evalLog[id][i].err \in BackendErrors
HitBackendError(id) ==
  Evaluated(id) /\ \E i \in DOMAIN evalLog[id] : BackendErrorAt(id, i)

\* C10 as stated: the evaluation stops at the test case that could not reach
\* the backend, and the output is one line, not one line per test case.
C10_BackendErrorAborts ==
  \A id \in DOMAIN db :
    HitBackendError(id) =>
      /\ ~db[id].passed
      /\ BackendErrorAt(id, Len(evalLog[id]))
      /\ Len(db[id].output) = 1

\* C10 amended: the test case that could not reach the backend gets its own
\* "execution error" line, the other test cases are still evaluated, and the
\* completed row has passed = false and one line per test case.
C10_BackendErrorIsPerCase ==
  \A id \in DOMAIN db :
    HitBackendError(id) =>
      /\ ~db[id].passed
      /\ Len(evalLog[id]) = Len(CasesOf(id))
      /\ Len(db[id].output) = Len(CasesOf(id))
      /\ \A i \in DOMAIN evalLog[id] :
           /\ db[id].output[i].n = i
           /\ BackendErrorAt(id, i) =>
                db[id].output[i] =
                  Line(i, "execution error", <<>>, <<evalLog[id][i].err>>)

\* The backend was not reached in a test case that is not the last one.
C10_Witness ==
  \E id \in DOMAIN db :
    HitBackendError(id) /\ \E i \in DOMAIN evalLog[id] :
      BackendErrorAt(id, i) /\ i < Len(evalLog[id])

\* The submitted code raised in test case i of identifier id.
RaisedAt(id, i) == evalLog[id][i].raw \in ErrorOutputs
ErrorTextAt(id, i) == StripNull(TrimSpace(evalLog[id][i].raw))
ExpectedAt(id, i) == ReduceText(CasesOf(id)[i].output)

\* C11 as stated: a test case in which the submitted code raised gets a line
\* of the "execution error" kind, and the submission does not pass.
C11_RaiseIsExecutionError ==
  \A id \in DOMAIN db :
    Evaluated(id) =>
      \A i \in DOMAIN evalLog[id] :
        RaisedAt(id, i) =>
          ~db[id].passed /\ db[id].output[i].kind = "execution error"

\* C11 amended: the traceback is compared like any output; unless it equals
\* the expected text, the submission does not pass and the line of that test
\* case is the "failed: expected .., got .." line with the traceback as got.
C11_RaiseIsComparedAsOutput ==
  \A id \in DOMAIN db :
    Evaluated(id) =>
      \A i \in DOMAIN evalLog[id] :
        (RaisedAt(id, i) /\ ErrorTextAt(id, i) # ExpectedAt(id, i)) =>
          /\ ~db[id].passed
          /\ evalLog[id][i].err = "none"
          /\ db[id].output[i] =
               Line(i, "failed", ExpectedAt(id, i), ErrorTextAt(id, i))

\* A completed submission whose code raised, and the worker is back at the
\* queue.
C11_Witness ==
  \E id \in DOMAIN db :
    /\ Evaluated(id) /\ Holders(id) = {}
    /\ \E i \in DOMAIN evalLog[id] : RaisedAt(id, i)
    /\ \E w \in Workers : wpc[w] = "idle"

\* The kind of line the worker writes for what happened in a test case.
KindOf(id, i) ==
  IF ~evalLog[id][i].inOK THEN "invalid input format."
  ELSE IF ~evalLog[id][i].outOK THEN "invalid expected output format."
  ELSE IF evalLog[id][i].err # "none" THEN "execution error"
  ELSE IF ErrorTextAt(id, i) = ExpectedAt(id, i) THEN "passed."
  ELSE "failed"

\* C12 as stated: the output of a completed evaluated submission has exactly
\* N lines, line i being about test case i.
C12_OutputIsNLines ==
  \A id \in DOMAIN db :
    Evaluated(id) =>
      /\ Len(db[id].output) = Len(CasesOf(id))
      /\ \A i \in DOMAIN db[id].output : db[id].output[i].n = i

\* C12 amended: all N test cases are evaluated whatever happens in one of
\* them; if the submission did not pass, its output has exactly N lines, line
\* i about test case i and of the kind of what happened there; if it passed,
\* its output is the one line "All test cases passed.".
C12_OutputIsNLinesUnlessPassed ==
  \A id \in DOMAIN db :
    Evaluated(id) =>
      /\ Len(evalLog[id]) = Len(CasesOf(id))
      /\ \A i \in DOMAIN evalLog[id] : evalLog[id][i].n = i
      /\ IF db[id].passed
         THEN db[id].output = FixedText("All test cases passed.")
         ELSE /\ Len(db[id].output) = Len(CasesOf(id))
              /\ \A i \in DOMAIN db[id].output :
                   /\ db[id].output[i].n = i
                   /\ db[id].output[i].kind = KindOf(id, i)

\* A completed submission whose first test case had an invalid input, whose
\* second one ran and passed, and whose third one had an invalid expected
\* output.
C12_Witness ==
  \E id \in DOMAIN db :
    /\ Evaluated(id) /\ ~db[id].passed /\ Len(evalLog[id]) = 3
    /\ KindOf(id, 1) = "invalid input format."
    /\ KindOf(id, 2) = "passed."
    /\ KindOf(id, 3) = "invalid expected output format."

Pristine(id) ==
  db[id].status = "pending" /\ ~db[id].passed /\ db[id].output = <<>>
\* The worker is done with identifier id and its db.Save failed.
WriteFailed(id) ==
  Holders(id) = {} /\ ops[id].saves > 0 /\ ops[id].writers = {}

\* C13: the step in which db.Save fails changes no row and sends nothing,
\* and takes the worker back to the queue; afterwards the row is still
\* pending with passed and output as created, and its identifier is not
\* queued again.
C13_FailedWriteLeavesPending ==
  /\ [](\A id \in DOMAIN db :
          WriteFailed(id) =>
            /\ Pristine(id)
            /\ id \notin Range(queue)
            /\ Cardinality({k \in DOMAIN enqLog : enqLog[k] = id}) = 1)
  /\ [][\A w \in Workers :
          (wpc[w] = "save" /\ wpc'[w] # "save" /\ w \notin ops'[Id(w)].writers) =>
            /\ db' = db /\ queue' = queue /\ enqLog' = enqLog
            /\ wpc'[w] = "idle"]_vars

\* A write failed and the worker has received the next identifier since.
C13_Witness ==
  \E id \in DOMAIN db :
    /\ WriteFailed(id)
    /\ \E k \in DOMAIN deqLog : deqLog[k][2] = id /\ k < Len(deqLog)

\* The worker is done with identifier id.
Processed(id) == Holders(id) = {} /\ ops[id].fetches > 0
\* The worker is done with identifier id, whose row db.First did not return.
FetchFailed(id) ==
  Processed(id) /\ ops[id].loads = 0 /\ ops[id].outcome = "none"
\* The fields a worker never assigns.
Identity(row) ==
  <<row.id, row.userId, row.problemId, row.competitionId, row.language,
    row.code>>

\* C14: for a dequeued identifier the submission row is read at most once,
\* its problem at most once and db.Save is called at most once: once when
\* the row was fetched, never when it was not.  A row that holds a verdict
\* or an output is completed and was written by a worker, and an existing
\* row changes only in a db.Save step, which stores status completed and
\* leaves the other fields as they are.
C14_OneReadOneWrite ==
  /\ [](\A id \in DOMAIN db :
          /\ ops[id].fetches <= 1 /\ ops[id].loads <= 1 /\ ops[id].saves <= 1
          /\ Cardinality({k \in DOMAIN deqLog : deqLog[k][2] = id}) = ops[id].fetches
               + Cardinality({w \in Holders(id) : wpc[w] = "fetch"})
          /\ (Processed(id) /\ ~FetchFailed(id)) => ops[id].saves = 1
          /\ FetchFailed(id) => ops[id].saves = 0
          /\ Completed(id) => ops[id].saves = 1 /\ ops[id].writers # {}
          /\ (db[id].passed \/ db[id].output # <<>>) => Completed(id))
  /\ [][\A id \in DOMAIN db :
          db'[id] # db[id] =>
            /\ ops'[id].saves = ops[id].saves + 1
            /\ db'[id].status = "completed"
            /\ Identity(db'[id]) = Identity(db[id])]_vars

\* One identifier was fetched, evaluated and written back, another one could
\* not be fetched.
C14_Witness ==
  \E id, other \in DOMAIN db :
    /\ Processed(id) /\ Completed(id)
    /\ ops[id].fetches = 1 /\ ops[id].loads = 1 /\ ops[id].saves = 1
    /\ FetchFailed(other)

Competitions == {"comp1", "comp2"}
Users == {p.userId : p \in Payloads}
RECURSIVE SolvedUpTo(_, _, _)
\* How many of the rows 1..n are completed, passed rows of user u in comp.
SolvedUpTo(n, u, comp) ==
  IF n = 0 THEN 0
  ELSE SolvedUpTo(n - 1, u, comp)
       + (IF /\ n \in DOMAIN db
             /\ db[n].userId = u /\ db[n].competitionId = comp
             /\ db[n].status = "completed" /\ db[n].passed
          THEN 1 ELSE 0)
Solved(u, comp) == SolvedUpTo(MaxRequests, u, comp)

\* C15: in every state and for every competition, the leaderboard has one
\* entry for each user with at least one completed and passed submission in
\* that competition, carrying the number of such submissions, and no other
\* entry: pending rows and completed rows that did not pass add nothing.
C15_LeaderboardCounts ==
  \A comp \in Competitions :
    LET lb == Leaderboard(db, comp) IN
      /\ \A e \in lb : e.UserID \in Users /\ e.NumSolved > 0
      /\ \A u \in Users :
           /\ Solved(u, comp) > 0 =>
                {e \in lb : e.UserID = u} = {[UserID |-> u, NumSolved |-> Solved(u, comp)]}
           /\ Solved(u, comp) = 0 => {e \in lb : e.UserID = u} = {}

\* A user has one submission that counts and a completed one that does not.
C15_Witness ==
  \E id, other \in DOMAIN db :
    /\ db[id].userId = db[other].userId
    /\ Completed(id) /\ db[id].passed
    /\ Completed(other) /\ ~db[other].passed
    /\ Leaderboard(db, "comp1") = {[UserID |-> db[id].userId, NumSolved |-> 1]}

Sent(id) == Cardinality({k \in DOMAIN enqLog : enqLog[k] = id})

\* C16: every identifier sent to the queue, and every identifier in it, is
\* the key of a stored row; each stored row's identifier has been sent once
\* or is held by the handler that created the row and is about to send it;
\* a request whose row was not created holds no identifier and sends
\* nothing.  The send step appends the identifier of a row that is already
\* stored, still pending and never sent before.
C16_EnqueueAfterCreate ==
  /\ [](/\ Range(enqLog) \subseteq DOMAIN db
        /\ Range(queue) \subseteq Range(enqLog)
        /\ Len(enqLog) = Cardinality({h \in Handlers : hpc[h] = "done"})
        /\ \A id \in DOMAIN db :
             Sent(id) + Cardinality({h \in Handlers : hpc[h] = "send" /\ hid[h] = id}) = 1
        /\ \A h \in Handlers :
             /\ hpc[h] \in {"start", "rejected"} => hid[h] = 0
             /\ hpc[h] = "done" => Sent(hid[h]) = 1)
  /\ [][enqLog' # enqLog =>
          \E id \in DOMAIN db :
            /\ db[id].status = "pending" /\ db' = db
            /\ Sent(id) = 0
            /\ enqLog' = Append(enqLog, id)
            /\ queue' = Append(queue, id)]_vars

\* One request was turned down, another stored its row and sent the
\* identifier, which a worker has received.
C16_Witness ==
  /\ \E h \in Handlers : hpc[h] = "rejected"
  /\ \E h \in Handlers :
       hpc[h] = "done" /\ hid[h] \in DOMAIN db /\ hid[h] \in Range(DeqIds)

NotPython(id) == db[id].language # "python"
\* The verdict of the placeholder policy on a row.
PlaceholderVerdict(row) ==
  /\ row.status = "completed"
  /\ row.passed = (row.code = "pass")
  /\ row.output = SanitizeOutput(FixedText(IF row.code = "pass"
                                           THEN "Correct Answer"
                                           ELSE "Wrong Answer"))

\* C17: for a row whose language is not python the worker loads no problem,
\* evaluates no test case and never reaches the sandbox; once it has
\* fetched the row it holds the placeholder verdict (completed; passed and
\* "Correct Answer" exactly when the code is "pass", else not passed and
\* "Wrong Answer") and calls db.Save once, and a row that is completed
\* carries exactly that verdict.
C17_NonPythonPlaceholder ==
  \A id \in DOMAIN db :
    NotPython(id) =>
      /\ evalLog[id] = <<>> /\ ops[id].loads = 0
      /\ ops[id].outcome \in {"none", "placeholder"}
      /\ \A w \in Holders(id) :
           /\ wpc[w] \in {"fetch", "save"}
           /\ cid[w] = 0
           /\ wpc[w] = "save" =>
                PlaceholderVerdict(wsub[w]) /\ Identity(wsub[w]) = Identity(db[id])
      /\ Completed(id) => PlaceholderVerdict(db[id])
      /\ (Processed(id) /\ ~FetchFailed(id)) =>
           /\ ops[id].outcome = "placeholder" /\ ops[id].saves = 1
           /\ ops[id].writers # {} => Completed(id)

\* Two rows of another language are completed, one with each verdict, and
\* no sandbox was ever created.
C17_Witness ==
  /\ containers = <<>>
  /\ \E id, other \in DOMAIN db :
       /\ NotPython(id) /\ Completed(id) /\ db[id].passed
       /\ NotPython(other) /\ Completed(other) /\ ~db[other].passed

\* A read or the write of row id failed in the store.
PersistenceError(id) ==
  \/ FetchFailed(id)
  \/ ops[id].outcome = "loadFailed"
  \/ ops[id].saves > Cardinality(ops[id].writers)
\* Some sandbox runs a program that never exits.
SomeRunNeverExits == \E c \in DOMAIN containers : containers[c] = "looping"

\* C18: with the handlers and the worker scheduled fairly, an identifier
\* that was sent to the queue is followed by its row being completed, unless
\* the store failed on a read or the write of that row or some sandbox run
\* never exits.
C18_EnqueuedEventuallyCompleted ==
  \A id \in 1..MaxRequests :
    (id \in Range(enqLog)) ~>
      (id \in DOMAIN db /\ (Completed(id) \/ PersistenceError(id) \/ SomeRunNeverExits))

\* A python row was sent, run in a sandbox that exited and completed, with
\* no failure of the store and no run that hangs.
C18_Witness ==
  \E id \in DOMAIN db :
    /\ id \in Range(enqLog) /\ Completed(id) /\ ~PersistenceError(id)
    /\ ~SomeRunNeverExits
    /\ \E c \in DOMAIN containers : containers[c] \in {"exited", "failed"}
    /\ ops[id].outcome = "evaluated" /\ db[id].problemId # 1

\* C19: in every state of the store a row with passed = true is completed,
\* and a pending row has passed = false and an empty output.
C19_PassedOnlyWhenCompleted ==
  \A id \in DOMAIN db :
    /\ db[id].status \in {"pending", "completed"}
    /\ db[id].passed => db[id].status = "completed"
    /\ db[id].status = "pending" => (~db[id].passed /\ db[id].output = <<>>)

\* One row is completed and passed; for another the worker computed a
\* verdict whose write failed, and the row is pending.
C19_Witness ==
  \E id, other \in DOMAIN db :
    /\ Completed(id) /\ db[id].passed
    /\ db[other].status = "pending" /\ WriteFailed(other)
    /\ ops[other].outcome \in {"evaluated", "placeholder"}

\* C20: the step in which db.First fails for a received identifier takes
\* the worker back to the queue and changes no row, creates no row, creates
\* no sandbox and sends nothing; the identifier is left with no problem
\* read, no test case evaluated and no write, its row as it was created.
C20_FetchFailureSkips ==
  /\ [](\A id \in DOMAIN db :
          FetchFailed(id) =>
            /\ ops[id].saves = 0 /\ evalLog[id] = <<>>
            /\ Pristine(id))
  /\ [][\A w \in Workers :
          (wpc[w] = "fetch" /\ wpc'[w] \notin {"fetch", "load", "save"}) =>
            /\ wpc'[w] = "idle"
            /\ db' = db /\ containers' = containers
            /\ queue' = queue /\ enqLog' = enqLog /\ evalLog' = evalLog]_vars

\* A row could not be fetched and the worker has since received and
\* fetched the next identifier.
C20_Witness ==
  \E id, other \in DOMAIN db :
    /\ FetchFailed(id) /\ Pristine(id)
    /\ other # id /\ ops[other].fetches = 1 /\ ~FetchFailed(other)
    /\ \E k \in DOMAIN deqLog : deqLog[k][2] = id /\ k < Len(deqLog)
====
